---------------------------- MODULE Spec2Model ----------------------------
(***************************************************************************)
(* Inventory of trading-card copies (mtg-trades-back).                     *)
(*                                                                         *)
(* The model follows src/src/controllers/cardsController.js (post, patch,  *)
(* getCard, deleteCard, getAll, fetchScryfallCard), the routes and the     *)
(* batch route of src/src/routes/cards.js and the middleware of            *)
(* src/src/middleware/auth.js.  A handler is an async function: it runs from *)
(* one await to the next without interruption, so every handler is cut at *)
(* its awaits (store read, catalog lookup, store write) and each piece is  *)
(* one action.  A request that is being served lives in a slot; its frame  *)
(* holds the handler's local variables and its position (pc).              *)
(***************************************************************************)
EXTENDS Integers, Sequences, FiniteSets, TLC

VARIABLES store, now, slots, cachedSecret

vars == <<store, now, slots, cachedSecret>>

(***************************************************************************)
(* Bounds of the model                                                     *)
(***************************************************************************)
\* largest value of the clock
MaxTime == 2
\* largest absolute quantity kept in a stored finish entry
MaxAmount == 2
\* largest number of note lines kept in a stored finish entry
MaxNotes == 1

(***************************************************************************)
(* Program constants                                                       *)
(***************************************************************************)
SCRYFALL_TTL_HOURS == 24

\* The clock counts ticks of a day; Date.now() is in milliseconds.
MsPerTick == 24 * 3600 * 1000
TTL == (SCRYFALL_TTL_HOURS * 3600 * 1000) \div MsPerTick

(***************************************************************************)
(* Request parameters                                                      *)
(***************************************************************************)
SetCodes == {"khm", "KHM"}
CardNumbers == {"1", "2"}

\* the setcode of a batch operation that has none
Undefined == "undefined"

\* toLowerCase that leaves the letters as they are
toLowerCase_Identity(s) == s

\* String.prototype.toLowerCase on the set codes of the model
toLowerCase(s) == IF s = "KHM" THEN "khm" ELSE s

\* `${setCode.toLowerCase()}:${cardNumber}`, kept as the pair of its parts
getKey(setCode, cardNumber) == <<toLowerCase(setCode), cardNumber>>

StoreKeys == {getKey(s, c) : s \in SetCodes, c \in CardNumbers}

FinishNames == {"nonfoil", "foil", "etched"}

\* one element of a submitted finishes array; notes "" is "no note"
Posted(f, a, n) == [finish |-> f, amount |-> a, notes |-> n]

\* request bodies: {} (keys = 0) or { finishes: [...] }
EmptyBody == [keys |-> 0, finishes |-> << >>]
Body(fs) == [keys |-> 1, finishes |-> fs]

\* the path parameters and the body of a request
Req(setcode, cardNumber, body) ==
  [setcode |-> setcode, cardNumber |-> cardNumber, body |-> body]

\* the bodies submitted to POST /cards/khm/1
PostBodies ==
  { EmptyBody,
    Body(<< >>),
    Body(<< Posted("nonfoil", 1, "") >>),
    Body(<< Posted("nonfoil", 2, "n") >>),
    Body(<< Posted("nonfoil", 0, "") >>),
    Body(<< Posted("nonfoil", -1, "") >>),
    Body(<< Posted("foil", 1, "") >>),
    Body(<< Posted("nonfoil", 1, ""), Posted("nonfoil", 1, "") >>),
    Body(<< Posted("nonfoil", 1, "n"), Posted("nonfoil", 1, "") >>),
    Body(<< Posted("nonfoil", 1, ""), Posted("etched", 1, "") >>) }

\* the bodies submitted to PATCH /cards/khm/1
PatchBodies ==
  { EmptyBody,
    Body(<< >>),
    Body(<< Posted("nonfoil", 1, "") >>),
    Body(<< Posted("nonfoil", 2, "n") >>),
    Body(<< Posted("nonfoil", 0, "") >>),
    Body(<< Posted("nonfoil", -1, "") >>),
    Body(<< Posted("foil", 1, "") >>),
    Body(<< Posted("nonfoil", 2, ""), Posted("nonfoil", 0, "") >>),
    Body(<< Posted("nonfoil", 1, ""), Posted("etched", 1, "") >>),
    Body(<< Posted("nonfoil", 0, ""), Posted("foil", 0, "") >>),
    Body(<< Posted("nonfoil", 0, ""), Posted("foil", 2, "") >>) }

PostRequests ==
  {Req("khm", "1", b) : b \in PostBodies}
    \cup { Req("KHM", "1", Body(<< Posted("nonfoil", 1, "") >>)),
           Req("khm", "2", Body(<< Posted("nonfoil", 1, "") >>)) }

PatchRequests ==
  {Req("khm", "1", b) : b \in PatchBodies}
    \cup { Req("KHM", "1", Body(<< Posted("nonfoil", 1, "") >>)),
           Req("khm", "2", Body(<< Posted("etched", 1, "") >>)) }

\* the cards a DELETE or GET names
Targets ==
  { Req("khm", "1", EmptyBody), Req("KHM", "1", EmptyBody),
    Req("khm", "2", EmptyBody) }

(***************************************************************************)
(* Catalog (Scryfall)                                                      *)
(***************************************************************************)
\* response.data of a lookup, or null when axios.get threw
NullScry == [isNull |-> TRUE, finishes |-> {}]
ScryData(fs) == [isNull |-> FALSE, finishes |-> fs]

\* what the catalog may hold for a card at the time of a lookup
CatalogData == {ScryData({"nonfoil", "foil"}), ScryData({"nonfoil"})}

\* fetchScryfallCard: the data, or null on any error
FetchResults == CatalogData \cup {NullScry}

(***************************************************************************)
(* Stored records                                                          *)
(***************************************************************************)
Card(k, fs, sc, ttl) ==
  [CardId |-> k, finishes |-> fs, scryfall |-> sc, scryfall_ttl |-> ttl]

\* placeholder of a local variable that holds no card (undefined)
NoCard == Card(<<"", "">>, << >>, NullScry, 0)

\* isScryfallExpired that takes the expiry itself for expired
isScryfallExpired_NonStrict(card, t) ==
  IF card.scryfall.isNull \/ card.scryfall_ttl = 0
  THEN TRUE
  ELSE t >= card.scryfall_ttl

\* isScryfallExpired(card)
isScryfallExpired(card, t) ==
  IF card.scryfall.isNull \/ card.scryfall_ttl = 0
  THEN TRUE
  ELSE t > card.scryfall_ttl

\* now.toISOString().slice(0, 16): the minute of the clock value; a tick
\* of the model is a whole number of minutes
datetime(t) == t

\* `${datetime} ${posted.notes}`: one line of a notes log
noteStr(t, text) == <<datetime(t), text>>

\* Array.isArray(scryfallData.finishes) ? scryfallData.finishes : []
validFinishes(sc) == sc.finishes

(***************************************************************************)
(* Merging a submitted finishes array                                      *)
(***************************************************************************)
\* a stored finish entry; notes is the log, a sequence of lines ('' is << >>)
Finish(f, a, ns) == [finish |-> f, amount |-> a, notes |-> ns]

\* finishMap[name] is defined
HasFinish(finishMap, name) ==
  \E i \in 1..Len(finishMap) : finishMap[i].finish = name

\* finishMap[e.finish] = e: a present property keeps its place in the
\* enumeration order of the object, a new one goes last
SetFinish(finishMap, e) ==
  IF HasFinish(finishMap, e.finish)
  THEN [i \in 1..Len(finishMap) |->
          IF finishMap[i].finish = e.finish THEN e ELSE finishMap[i]]
  ELSE Append(finishMap, e)

\* for (const f of existingFinishes) finishMap[f.finish] = { ...f }
RECURSIVE BuildFinishMap(_)
BuildFinishMap(existingFinishes) ==
  IF existingFinishes = << >>
  THEN << >>
  ELSE SetFinish(BuildFinishMap(SubSeq(existingFinishes, 1, Len(existingFinishes) - 1)),
                 existingFinishes[Len(existingFinishes)])

\* (notes ? notes + '\n' : '') + noteStr
AppendNote(notes, t, text) == Append(notes, noteStr(t, text))

\* posted.notes ? `${datetime} ${posted.notes}` : ''
NewNotes(posted, t) ==
  IF posted.notes /= "" THEN << noteStr(t, posted.notes) >> ELSE << >>

\* the entry of finishMap under a name it holds
GetFinish(finishMap, name) ==
  finishMap[CHOOSE i \in 1..Len(finishMap) : finishMap[i].finish = name]

\* post: finishMap[posted.finish].amount += Number(posted.amount)
PostAmount(old, posted) == old + posted.amount

\* one turn of the loop over body.finishes in post (existing card)
PostApply(finishMap, posted, t) ==
  IF HasFinish(finishMap, posted.finish)
  THEN LET e == GetFinish(finishMap, posted.finish)
       IN  SetFinish(finishMap,
             Finish(e.finish, PostAmount(e.amount, posted),
                    IF posted.notes /= ""
                    THEN AppendNote(e.notes, t, posted.notes)
                    ELSE e.notes))
  ELSE SetFinish(finishMap,
         Finish(posted.finish, posted.amount, NewNotes(posted, t)))

RECURSIVE PostMerge(_, _, _)
PostMerge(finishMap, finishes, t) ==
  IF finishes = << >>
  THEN finishMap
  ELSE PostMerge(PostApply(finishMap, Head(finishes), t), Tail(finishes), t)

\* post, new card: body.finishes.map(...), one stored entry per array element
PostNewFinishes(finishes, t) ==
  [i \in 1..Len(finishes) |->
     Finish(finishes[i].finish, finishes[i].amount, NewNotes(finishes[i], t))]

\* PatchAmount that increments as post does
PatchAmount_Increment(old, posted) == old + posted.amount

\* patch: finishMap[posted.finish].amount = Number(posted.amount)
PatchAmount(old, posted) == posted.amount

\* one turn of the loop over finishes in patch
PatchApply(finishMap, posted, t) ==
  IF HasFinish(finishMap, posted.finish)
  THEN LET e == GetFinish(finishMap, posted.finish)
       IN  SetFinish(finishMap,
             Finish(e.finish, PatchAmount(e.amount, posted),
                    IF posted.notes /= ""
                    THEN AppendNote(e.notes, t, posted.notes)
                    ELSE e.notes))
  ELSE SetFinish(finishMap,
         Finish(posted.finish, posted.amount, NewNotes(posted, t)))

RECURSIVE PatchMerge(_, _, _)
PatchMerge(finishMap, finishes, t) ==
  IF finishes = << >>
  THEN finishMap
  ELSE PatchMerge(PatchApply(finishMap, Head(finishes), t), Tail(finishes), t)

\* KeepFinish that keeps the entries of amount 0
KeepFinish_ZeroStays(f) == f.amount >= 0

\* patch: the entries Object.values(finishMap).filter(...) keeps
KeepFinish(f) == f.amount > 0

\* Object.values(finishMap).filter(f => f.amount > 0)
RECURSIVE FilterFinishes(_)
FilterFinishes(fs) ==
  IF fs = << >>
  THEN << >>
  ELSE IF KeepFinish(Head(fs))
       THEN << Head(fs) >> \o FilterFinishes(Tail(fs))
       ELSE FilterFinishes(Tail(fs))

\* PostInvalidAt that checks the first element only
PostInvalidAt_FirstOnly(finishes, valid) ==
  IF Len(finishes) > 0 /\ finishes[1].finish \notin valid THEN 1 ELSE 0

\* post: the first element of body.finishes that fails the finish check
\* (0 when all pass)
PostInvalidAt(finishes, valid) ==
  IF \E i \in 1..Len(finishes) : finishes[i].finish \notin valid
  THEN CHOOSE i \in 1..Len(finishes) :
         /\ finishes[i].finish \notin valid
         /\ \A j \in 1..(i - 1) : finishes[j].finish \in valid
  ELSE 0

\* patch: !Number.isInteger(Number(amount)) || Number(amount) < 0
PatchBadAmount(posted) == posted.amount < 0

\* patch: the first element of finishes that fails a check (0 when all pass)
PatchInvalidAt(finishes, valid) ==
  LET bad(i) == finishes[i].finish \notin valid \/ PatchBadAmount(finishes[i])
  IN  IF \E i \in 1..Len(finishes) : bad(i)
      THEN CHOOSE i \in 1..Len(finishes) :
             bad(i) /\ \A j \in 1..(i - 1) : ~bad(j)
      ELSE 0

(***************************************************************************)
(* Requests in service                                                     *)
(***************************************************************************)
Slots == {1, 2}


\* the response object of a handler: express's res, or the mockRes of the
\* batch route; status 0 is "no status property"
\* what a handler answered: the status, the kind of body (an error message,
\* "card", "cards" or "none") and the card of a "card" body
Result(status, body, card) == [status |-> status, body |-> body, card |-> card]

NoResult == Result(0, "none", NoCard)

\* res.status(code).json({ error })
StatusError(res, code, error) == Result(code, error, NoCard)

\* res.status(code).json(card)
StatusCard(res, code, card) == Result(code, "card", card)

\* res.json(card): express answers 200, mockRes leaves the status out
JsonCard(res, card) ==
  IF res = "express" THEN Result(200, "card", card) ELSE Result(0, "card", card)

\* res.json(cardsObj)
JsonCards(res) ==
  IF res = "express" THEN Result(200, "cards", NoCard) ELSE Result(0, "cards", NoCard)

\* res.status(code).send()
StatusSend(res, code) == Result(code, "none", NoCard)

\* an error outcome: a 4xx/5xx answer or the error object of the batch route
Failed(result) ==
  \/ result.status \in {400, 404, 500}
  \/ result.body \in {"Unknown operation type", "TypeError"}

\* a success outcome: the card, or 204 after a deletion
Succeeded(result) ==
  ~Failed(result) /\ (result.body = "card" \/ result.status = 204)

\* the local variables of one handler invocation
Frame(type, res, setcode, cardNumber, body) ==
  [type |-> type, res |-> res, setcode |-> setcode, cardNumber |-> cardNumber,
   body |-> body, key |-> getKey(toLowerCase(setcode), cardNumber),
   pc |-> "get", hasItem |-> FALSE, item |-> NoCard, card |-> NoCard,
   scryfallData |-> NullScry, result |-> NoResult, lookups |-> 0, writes |-> 0,
   cardsObj |-> << >>]

NoFrame == [Frame("none", "mock", "khm", "1", EmptyBody) EXCEPT !.pc = "none"]

\* the handler returns after answering
Done(f, result) == [f EXCEPT !.pc = "done", !.result = result]

\* !req.body || Object.keys(req.body).length === 0
MissingBody(body) == body.keys = 0

\* post, up to its first await
postEnter(res, setcode, cardNumber, body) ==
  LET f == Frame("create", res, setcode, cardNumber, body)
  IN  IF MissingBody(body)
      THEN Done(f, StatusError(res, 400, "Missing request body"))
      ELSE f

\* patch, up to its first await
patchEnter(res, setcode, cardNumber, body) ==
  LET f == Frame("update", res, setcode, cardNumber, body)
  IN  IF MissingBody(body)
      THEN Done(f, StatusError(res, 400, "Missing request body"))
      ELSE IF Len(body.finishes) = 0
           THEN Done(f, StatusError(res, 400, "finishes array required"))
           ELSE f

deleteEnter(res, setcode, cardNumber) ==
  Frame("delete", res, setcode, cardNumber, EmptyBody)

getEnter(res, setcode, cardNumber) ==
  Frame("get", res, setcode, cardNumber, EmptyBody)

getAllEnter(res) ==
  [Frame("getAll", res, "khm", "1", EmptyBody) EXCEPT !.pc = "scan"]

\* result.Item of a GetCommand
Read(f, st) ==
  IF f.key \in DOMAIN st
  THEN [f EXCEPT !.hasItem = TRUE, !.item = st[f.key], !.card = st[f.key]]
  ELSE f

\* Throws of a handler that reads scryfallData?.finishes
Throws_Never(scryfallData) == FALSE

\* scryfallData.finishes throws a TypeError when scryfallData is null
Throws(scryfallData) == scryfallData.isNull

\* post, from the validation of body.finishes to the PutCommand
postMerge(f0, scryfallData, t) ==
  LET f == [f0 EXCEPT !.scryfallData = scryfallData]
  IN  IF Throws(scryfallData)
      THEN \* caught by the handler
           Done(f, StatusError(f.res, 500, "DynamoDB error"))
      ELSE IF PostInvalidAt(f.body.finishes, validFinishes(scryfallData)) /= 0
           THEN Done(f, StatusError(f.res, 400, "finish does not exist"))
           ELSE LET finishes ==
                      IF f.hasItem
                      THEN PostMerge(BuildFinishMap(f.item.finishes),
                                     f.body.finishes, t)
                      ELSE PostNewFinishes(f.body.finishes, t)
                IN  [f EXCEPT !.card = Card(f.key, finishes, scryfallData, t + TTL),
                              !.pc = "put"]

\* post, after the GetCommand
postAfterGet(f, t) ==
  IF ~f.hasItem \/ isScryfallExpired(f.item, t)
  THEN [f EXCEPT !.pc = "fetch"]
  ELSE postMerge(f, f.item.scryfall, t)

\* post, after fetchScryfallCard
postAfterFetch(f, data, t) ==
  postMerge([f EXCEPT !.lookups = @ + 1], data, t)

\* post, after the PutCommand
postAfterPut(f) ==
  Done([f EXCEPT !.writes = @ + 1], StatusCard(f.res, 201, f.card))

\* patch, from the validation of finishes to the Put or Delete command
patchMerge(f0, scryfallData, t) ==
  LET f == [f0 EXCEPT !.scryfallData = scryfallData] IN
  IF Throws(scryfallData)
  THEN Done(f, StatusError(f.res, 500, "DynamoDB error"))
  ELSE LET bad == PatchInvalidAt(f.body.finishes, validFinishes(scryfallData))
       IN  IF bad /= 0
           THEN IF f.body.finishes[bad].finish \notin validFinishes(scryfallData)
                THEN Done(f, StatusError(f.res, 400, "finish does not exist"))
                ELSE Done(f, StatusError(f.res, 400, "Invalid amount"))
           ELSE LET updatedFinishes ==
                      FilterFinishes(PatchMerge(BuildFinishMap(f.item.finishes),
                                                f.body.finishes, t))
                IN  IF Len(updatedFinishes) = 0
                    THEN [f EXCEPT !.pc = "del"]
                    ELSE [f EXCEPT !.card = [f.item EXCEPT
                                               !.finishes = updatedFinishes,
                                               !.scryfall = scryfallData,
                                               !.scryfall_ttl = t + TTL],
                                   !.pc = "put"]

\* patch, after the GetCommand
patchAfterGet(f, t) ==
  IF ~f.hasItem
  THEN Done(f, StatusError(f.res, 404, "Card not found"))
  ELSE IF isScryfallExpired(f.item, t)
       THEN [f EXCEPT !.pc = "fetch"]
       ELSE patchMerge(f, f.item.scryfall, t)

patchAfterFetch(f, data, t) ==
  patchMerge([f EXCEPT !.lookups = @ + 1], data, t)

patchAfterPut(f) ==
  Done([f EXCEPT !.writes = @ + 1], JsonCard(f.res, f.card))

patchAfterDelete(f) ==
  Done([f EXCEPT !.writes = @ + 1], StatusSend(f.res, 204))

\* deleteAfterGet without the check of result.Item
deleteAfterGet_NoCheck(f) == [f EXCEPT !.pc = "del"]

\* deleteCard, after the GetCommand
deleteAfterGet(f) ==
  IF ~f.hasItem
  THEN Done(f, StatusError(f.res, 404, "Card not found"))
  ELSE [f EXCEPT !.pc = "del"]

deleteAfterDelete(f) ==
  Done([f EXCEPT !.writes = @ + 1], StatusSend(f.res, 204))

\* getAfterGet that refreshes whatever the expiry
getAfterGet_AlwaysFetch(f, t) ==
  IF ~f.hasItem
  THEN Done(f, StatusError(f.res, 404, "Card not found"))
  ELSE [f EXCEPT !.pc = "fetch"]

\* getCard, after the GetCommand
getAfterGet(f, t) ==
  IF ~f.hasItem
  THEN Done(f, StatusError(f.res, 404, "Card not found"))
  ELSE IF isScryfallExpired(f.item, t)
       THEN [f EXCEPT !.pc = "fetch"]
       ELSE Done(f, JsonCard(f.res, f.card))

\* getCard, after fetchScryfallCard
getAfterFetch(f, data, t) ==
  [f EXCEPT !.lookups = @ + 1,
            !.card = [f.item EXCEPT !.scryfall = data,
                                    !.scryfall_ttl = t + TTL],
            !.pc = "put"]

getAfterPut(f) ==
  Done([f EXCEPT !.writes = @ + 1], JsonCard(f.res, f.card))

\* result.Items of the ScanCommand: the records of the table
Scan(st) == {st[k] : k \in DOMAIN st}

\* cardsObj that files each card under its card number
cardsObj_ByNumber(Items) ==
  [id \in {<< "", card.CardId[2] >> : card \in Items} |->
     CHOOSE card \in Items : card.CardId[2] = id[2]]

\* for (const card of result.Items) cardsObj[card.CardId] = card
cardsObj(Items) ==
  [id \in {card.CardId : card \in Items} |->
     CHOOSE card \in Items : card.CardId = id]

\* getAll, after the ScanCommand
getAllAfterScan(f, st) ==
  Done([f EXCEPT !.cardsObj = cardsObj(Scan(st))], JsonCards(f.res))

\* Put that does not replace a record the table holds
Put_FirstWriterWins(st, card) ==
  IF card.CardId \in DOMAIN st THEN st ELSE (card.CardId :> card) @@ st

\* PutCommand and DeleteCommand on the table
Put(st, card) == (card.CardId :> card) @@ st
Delete(st, k) == [x \in (DOMAIN st) \ {k} |-> st[x]]

(***************************************************************************)
(* Batch route                                                             *)
(***************************************************************************)
Op(type, setcode, cardNumber, body) ==
  [type |-> type, setcode |-> setcode, cardNumber |-> cardNumber, body |-> body]

\* a null element of the operations array
NullOp == Op("null", Undefined, Undefined, EmptyBody)

\* the status of a batch whose route has thrown: res.json({ results }) is
\* never reached and the route sends no answer
Unanswered == 0 - 1

\* the operations arrays submitted to POST /cards/batch
Batches ==
  { << >>,
    << Op("update", "khm", "1", Body(<< Posted("nonfoil", 2, "") >>)),
       Op("update", "khm", "2", Body(<< Posted("etched", 1, "") >>)),
       Op("update", "KHM", "1", Body(<< Posted("foil", 1, "") >>)) >>,
    << Op("create", "khm", "1", Body(<< Posted("nonfoil", 2, "") >>)),
       Op("update", "KHM", "1", Body(<< Posted("nonfoil", 0, "") >>)),
       Op("delete", "khm", "1", EmptyBody) >>,
    << Op("merge", "khm", "2", Body(<< Posted("nonfoil", 1, "") >>)),
       Op("create", "khm", "2", EmptyBody),
       Op("create", "khm", "2", Body(<< Posted("nonfoil", 1, "") >>)) >>,
    << Op("delete", Undefined, "2", EmptyBody),
       Op("delete", "khm", "2", EmptyBody) >>,
    << NullOp >> }

\* req.body.operations: an array, or anything else
BatchInputs ==
  {[isArray |-> FALSE, operations |-> << >>]}
    \cup {[isArray |-> TRUE, operations |-> b] : b \in Batches}

\* the Authorization header of a request: absent, a token that does not
\* verify, a token that verifies without or with the CARD_EDITOR permission
NoToken == "none"
Tokens == {NoToken, "invalid", "viewer", "editor"}

\* req.body.operations of a request that is not a batch
NoInput == [isArray |-> FALSE, operations |-> << >>]

\* a request as express receives it: the route, the token, the path
\* parameters with the body, and the operations of a batch
Call(route, token, req, input) ==
  [route |-> route, token |-> token, req |-> req, input |-> input]

NoCall == Call("none", NoToken, Req("khm", "1", EmptyBody), NoInput)

\* a request in service: a single handler invocation or a batch
Slot(kind, frame, ops, idx, results, status) ==
  [kind |-> kind, frame |-> frame, ops |-> ops, idx |-> idx,
   results |-> results, status |-> status, call |-> NoCall]

Idle == Slot("idle", NoFrame, << >>, 0, << >>, 0)

\* dispatch that runs patch for a create
dispatch_CreateAsUpdate(op) ==
  IF op.type \in {"create", "update"}
  THEN patchEnter("mock", op.setcode, op.cardNumber, op.body)
  ELSE IF op.type = "delete" THEN deleteEnter("mock", op.setcode, op.cardNumber)
  ELSE Done(Frame(op.type, "mock", op.setcode, op.cardNumber, op.body),
            Result(0, "Unknown operation type", NoCard))

\* dispatch that runs deleteCard for a type the switch does not know
dispatch_UnknownAsDelete(op) ==
  IF op.type = "create" THEN postEnter("mock", op.setcode, op.cardNumber, op.body)
  ELSE IF op.type = "update" THEN patchEnter("mock", op.setcode, op.cardNumber, op.body)
  ELSE [deleteEnter("mock", op.setcode, op.cardNumber) EXCEPT !.type = op.type]

\* the switch on op.type, up to the first await of the handler it calls
\* (body || {} is the body: every operation of the model carries one)
dispatch(op) ==
  IF op.type \in {"create", "update", "delete"} /\ op.setcode = Undefined
  THEN \* req.params.setCode.toLowerCase() throws in the handler and the
       \* catch of the route sets result = { error: err.message }
       Done(Frame(op.type, "mock", op.setcode, op.cardNumber, op.body),
            Result(0, "TypeError", NoCard))
  ELSE IF op.type = "create" THEN postEnter("mock", op.setcode, op.cardNumber, op.body)
  ELSE IF op.type = "update" THEN patchEnter("mock", op.setcode, op.cardNumber, op.body)
  ELSE IF op.type = "delete" THEN deleteEnter("mock", op.setcode, op.cardNumber)
  ELSE Done(Frame(op.type, "mock", op.setcode, op.cardNumber, op.body),
            Result(0, "Unknown operation type", NoCard))

\* results.push({ type, setcode, cardNumber, result })
ResultEntry(op, result) ==
  [type |-> op.type, setcode |-> op.setcode, cardNumber |-> op.cardNumber,
   result |-> result]

\* NextIdx that steps over an operation
NextIdx_Skip(idx) == idx + 2

\* the position of the loop after one more operation
NextIdx(idx) == idx + 1

\* the head of the for loop: the next operation is entered, or the loop is
\* left and res.json({ results }) answers
batchLoop(b) ==
  IF b.idx <= Len(b.ops)
  THEN IF b.ops[b.idx] = NullOp
       THEN \* const { type, setcode, cardNumber, body } = op throws before
            \* the try: the promise of the route is rejected
            [b EXCEPT !.frame = NoFrame, !.status = Unanswered]
       ELSE [b EXCEPT !.frame = dispatch(b.ops[b.idx])]
  ELSE [b EXCEPT !.frame = NoFrame, !.status = 200]

\* the route, from its start to the first await
batchEnter(input) ==
  IF ~input.isArray
  THEN Slot("batch", NoFrame, << >>, 1, << >>, 400)
  ELSE batchLoop(Slot("batch", NoFrame, input.operations, 1, << >>, 0))

\* batchAfterOp that leaves the loop at the first error outcome
batchAfterOp_AbortOnError(b) ==
  LET pushed == [b EXCEPT !.results = Append(@, ResultEntry(b.ops[b.idx], b.frame.result)),
                          !.idx = NextIdx(@)]
  IN  IF Failed(b.frame.result)
      THEN [pushed EXCEPT !.frame = NoFrame, !.status = 200]
      ELSE batchLoop(pushed)

\* after await post/patch/deleteCard: the result is pushed, the loop goes on
batchAfterOp(b) ==
  batchLoop([b EXCEPT !.results = Append(@, ResultEntry(b.ops[b.idx], b.frame.result)),
                      !.idx = NextIdx(@)])

(***************************************************************************)
(* Routes and authentication                                               *)
(***************************************************************************)
Single(f) == Slot("single", f, << >>, 0, << >>, 0)

\* the routes declared with authenticateToken before their handler
Protected == {"POST", "PATCH", "DELETE", "BATCH"}

\* the routes declared with their handler only
Open == {"GET", "GETALL"}

\* express calls the handler of the route; it runs up to its first await
handle(call) ==
  LET r == call.req
      entered ==
        IF call.route = "POST"
        THEN Single(postEnter("express", r.setcode, r.cardNumber, r.body))
        ELSE IF call.route = "PATCH"
        THEN Single(patchEnter("express", r.setcode, r.cardNumber, r.body))
        ELSE IF call.route = "DELETE"
        THEN Single(deleteEnter("express", r.setcode, r.cardNumber))
        ELSE IF call.route = "GET"
        THEN Single(getEnter("express", r.setcode, r.cardNumber))
        ELSE IF call.route = "GETALL"
        THEN Single(getAllEnter("express"))
        ELSE batchEnter(call.input)
  IN  [entered EXCEPT !.call = call]

\* the middleware answers itself (res.sendStatus(code) or
\* res.status(403).json(...)): next() is not called, no handler runs
Refused(call, code) ==
  [Single(Done(NoFrame, Result(code, "none", NoCard))) EXCEPT !.call = call]

\* the request waits for the reply of the secrets manager in getSecret
AwaitSecret(call) ==
  [Slot("auth", NoFrame, << >>, 0, << >>, 0) EXCEPT !.call = call]

\* authenticateToken, after await getSecret(): the callback of jwt.verify
authAfterSecret(call) ==
  IF call.token = "invalid"
  THEN Refused(call, 403)
  ELSE IF call.token = "viewer"
       THEN Refused(call, 403)
       ELSE handle(call)

\* authenticateToken that calls next() whatever the token
authenticateToken_NoCheck(call, cached) == handle(call)

\* authenticateToken, up to the reply of the secrets manager; with the
\* secret cached, getSecret returns without a query and the middleware goes
\* on in the same turn
authenticateToken(call, cached) ==
  IF call.token = NoToken
  THEN Refused(call, 401)
  ELSE IF cached
       THEN authAfterSecret(call)
       ELSE AwaitSecret(call)

\* authenticateToken, when client.send(command) throws in getSecret
authAfterThrow(call) == Refused(call, 500)

\* the router: the middleware of a protected route, the handler of an open one
route(call, cached) ==
  IF call.route \in Protected
  THEN authenticateToken(call, cached)
  ELSE handle(call)

\* the request that is sent with the tokens that are not accepted
Probe == Req("khm", "1", Body(<< Posted("nonfoil", 1, "") >>))

\* the calls of a route: every request with an accepted token, one request
\* with each of the others
Calls(rt, reqs, inputs) ==
  {Call(rt, "editor", r, i) : r \in reqs, i \in inputs}
    \cup {Call(rt, t, Probe, CHOOSE i \in inputs : TRUE) :
             t \in Tokens \ {"editor"}}

\* the route of the separate request that does what a batch operation does
RouteOf(type) ==
  IF type = "create" THEN "POST"
  ELSE IF type = "update" THEN "PATCH"
  ELSE "DELETE"

\* the separate request of a batch operation
CallOf(op) ==
  Call(RouteOf(op.type), "editor", Req(op.setcode, op.cardNumber, op.body), NoInput)

\* an answer as express sends it: the status is 200 when the handler set
\* none
Sent(result) ==
  IF result.status = 0 /\ result.body \in {"card", "cards"}
  THEN [result EXCEPT !.status = 200]
  ELSE result

\* the frame of a handler called with the res of express
Express(f) == [f EXCEPT !.res = "express", !.result = Sent(f.result)]

\* one piece of the handler of a separate request, from an await to the
\* next: its frame and the table after it
RequestStep(f, st, t, data) ==
  IF f.type = "create"
  THEN IF f.pc = "get" THEN << postAfterGet(Read(f, st), t), st >>
       ELSE IF f.pc = "fetch" THEN << postAfterFetch(f, data, t), st >>
       ELSE << postAfterPut(f), Put(st, f.card) >>
  ELSE IF f.type = "update"
  THEN IF f.pc = "get" THEN << patchAfterGet(Read(f, st), t), st >>
       ELSE IF f.pc = "fetch" THEN << patchAfterFetch(f, data, t), st >>
       ELSE IF f.pc = "put" THEN << patchAfterPut(f), Put(st, f.card) >>
       ELSE << patchAfterDelete(f), Delete(st, f.key) >>
  ELSE IF f.pc = "get" THEN << deleteAfterGet(Read(f, st)), st >>
       ELSE << deleteAfterDelete(f), Delete(st, f.key) >>

(***************************************************************************)
(* State machine                                                           *)
(***************************************************************************)
Init ==
  /\ store = << >>
  /\ now = 0
  /\ slots = [s \in Slots |-> Idle]
  /\ cachedSecret = FALSE

\* stored quantities and notes logs stay within the bounds of the model
Bounded(fs) ==
  \A i \in 1..Len(fs) :
    /\ fs[i].amount \in (0 - MaxAmount)..MaxAmount
    /\ Len(fs[i].notes) <= MaxNotes

\* the merge a handler would compute for the record now in the store
Admit(f) ==
  IF f.pc /= "get" THEN TRUE
  ELSE IF f.type = "create"
       THEN IF f.key \in DOMAIN store
            THEN Bounded(PostMerge(BuildFinishMap(store[f.key].finishes),
                                   f.body.finishes, now))
            ELSE Bounded(PostNewFinishes(f.body.finishes, now))
       ELSE IF f.type = "update" /\ f.key \in DOMAIN store
            THEN Bounded(PatchMerge(BuildFinishMap(store[f.key].finishes),
                                    f.body.finishes, now))
            ELSE TRUE

FitsBounds(f) == f.pc = "put" => Bounded(f.card.finishes)

\* requests are served one after the other
Serial(s) == s = 1 /\ \A t \in Slots : slots[t].kind = "idle"

At(s, type, pc) ==
  /\ slots[s].kind \in {"single", "batch"}
  /\ slots[s].frame.type = type
  /\ slots[s].frame.pc = pc

PostStart(s) ==
  /\ slots[s].kind = "idle"
  /\ \E c \in Calls("POST", PostRequests, {NoInput}) :
       LET b == route(c, cachedSecret)
       IN  /\ Admit(b.frame)
           /\ slots' = [slots EXCEPT ![s] = b]
  /\ UNCHANGED <<store, now, cachedSecret>>

PatchStart(s) ==
  /\ slots[s].kind = "idle"
  /\ \E c \in Calls("PATCH", PatchRequests, {NoInput}) :
       LET b == route(c, cachedSecret)
       IN  /\ Admit(b.frame)
           /\ slots' = [slots EXCEPT ![s] = b]
  /\ UNCHANGED <<store, now, cachedSecret>>

DeleteStart(s) ==
  /\ slots[s].kind = "idle"
  /\ \E c \in Calls("DELETE", Targets, {NoInput}) :
       slots' = [slots EXCEPT ![s] = route(c, cachedSecret)]
  /\ UNCHANGED <<store, now, cachedSecret>>

GetStart(s) ==
  /\ slots[s].kind = "idle"
  /\ \E r \in Targets :
       slots' = [slots EXCEPT ![s] =
                   route(Call("GET", NoToken, r, NoInput), cachedSecret)]
  /\ UNCHANGED <<store, now, cachedSecret>>

GetAllStart(s) ==
  /\ slots[s].kind = "idle"
  /\ slots' = [slots EXCEPT ![s] =
                 route(Call("GETALL", NoToken, NoCall.req, NoInput), cachedSecret)]
  /\ UNCHANGED <<store, now, cachedSecret>>

\* getSecret, after client.send(command): the secret is cached and the
\* middleware goes on
SecretReply(s) ==
  /\ slots[s].kind = "auth"
  /\ cachedSecret' = TRUE
  /\ LET b == authAfterSecret(slots[s].call)
     IN  /\ Admit(b.frame)
         /\ slots' = [slots EXCEPT ![s] = b]
  /\ UNCHANGED <<store, now>>

\* getSecret, when client.send(command) throws: the catch of the middleware
SecretThrow(s) ==
  /\ slots[s].kind = "auth"
  /\ slots' = [slots EXCEPT ![s] = authAfterThrow(slots[s].call)]
  /\ UNCHANGED <<store, now, cachedSecret>>

PostGet(s) ==
  /\ At(s, "create", "get")
  /\ LET f == postAfterGet(Read(slots[s].frame, store), now)
     IN  /\ FitsBounds(f)
         /\ slots' = [slots EXCEPT ![s].frame = f]
  /\ UNCHANGED <<store, now, cachedSecret>>

PostFetch(s) ==
  /\ At(s, "create", "fetch")
  /\ \E data \in FetchResults :
       LET f == postAfterFetch(slots[s].frame, data, now)
       IN  /\ FitsBounds(f)
           /\ slots' = [slots EXCEPT ![s].frame = f]
  /\ UNCHANGED <<store, now, cachedSecret>>

PostPut(s) ==
  /\ At(s, "create", "put")
  /\ store' = Put(store, slots[s].frame.card)
  /\ slots' = [slots EXCEPT ![s].frame = postAfterPut(@)]
  /\ UNCHANGED <<now, cachedSecret>>

PatchGet(s) ==
  /\ At(s, "update", "get")
  /\ LET f == patchAfterGet(Read(slots[s].frame, store), now)
     IN  /\ FitsBounds(f)
         /\ slots' = [slots EXCEPT ![s].frame = f]
  /\ UNCHANGED <<store, now, cachedSecret>>

PatchFetch(s) ==
  /\ At(s, "update", "fetch")
  /\ \E data \in FetchResults :
       LET f == patchAfterFetch(slots[s].frame, data, now)
       IN  /\ FitsBounds(f)
           /\ slots' = [slots EXCEPT ![s].frame = f]
  /\ UNCHANGED <<store, now, cachedSecret>>

PatchPut(s) ==
  /\ At(s, "update", "put")
  /\ store' = Put(store, slots[s].frame.card)
  /\ slots' = [slots EXCEPT ![s].frame = patchAfterPut(@)]
  /\ UNCHANGED <<now, cachedSecret>>

PatchDelete(s) ==
  /\ At(s, "update", "del")
  /\ store' = Delete(store, slots[s].frame.key)
  /\ slots' = [slots EXCEPT ![s].frame = patchAfterDelete(@)]
  /\ UNCHANGED <<now, cachedSecret>>

DeleteGet(s) ==
  /\ At(s, "delete", "get")
  /\ slots' = [slots EXCEPT ![s].frame = deleteAfterGet(Read(@, store))]
  /\ UNCHANGED <<store, now, cachedSecret>>

DeleteDelete(s) ==
  /\ At(s, "delete", "del")
  /\ store' = Delete(store, slots[s].frame.key)
  /\ slots' = [slots EXCEPT ![s].frame = deleteAfterDelete(@)]
  /\ UNCHANGED <<now, cachedSecret>>

GetGet(s) ==
  /\ At(s, "get", "get")
  /\ slots' = [slots EXCEPT ![s].frame = getAfterGet(Read(@, store), now)]
  /\ UNCHANGED <<store, now, cachedSecret>>

GetFetch(s) ==
  /\ At(s, "get", "fetch")
  /\ \E data \in FetchResults :
       slots' = [slots EXCEPT ![s].frame = getAfterFetch(@, data, now)]
  /\ UNCHANGED <<store, now, cachedSecret>>

GetPut(s) ==
  /\ At(s, "get", "put")
  /\ store' = Put(store, slots[s].frame.card)
  /\ slots' = [slots EXCEPT ![s].frame = getAfterPut(@)]
  /\ UNCHANGED <<now, cachedSecret>>

GetAllScan(s) ==
  /\ At(s, "getAll", "scan")
  /\ slots' = [slots EXCEPT ![s].frame = getAllAfterScan(@, store)]
  /\ UNCHANGED <<store, now, cachedSecret>>

\* the answer of a single request has been sent
Respond(s) ==
  /\ slots[s].kind = "single"
  /\ slots[s].frame.pc = "done"
  /\ slots' = [slots EXCEPT ![s] = Idle]
  /\ UNCHANGED <<store, now, cachedSecret>>

BatchStart(s) ==
  /\ slots[s].kind = "idle"
  /\ \E c \in Calls("BATCH", {NoCall.req}, BatchInputs) :
       LET b == route(c, cachedSecret)
       IN  /\ Admit(b.frame)
           /\ slots' = [slots EXCEPT ![s] = b]
  /\ UNCHANGED <<store, now, cachedSecret>>

BatchNext(s) ==
  /\ slots[s].kind = "batch"
  /\ slots[s].frame.pc = "done"
  /\ LET b == batchAfterOp(slots[s])
     IN  /\ Admit(b.frame)
         /\ slots' = [slots EXCEPT ![s] = b]
  /\ UNCHANGED <<store, now, cachedSecret>>

\* the batch route is over: its answer has been sent, or it has thrown
BatchRespond(s) ==
  /\ slots[s].kind = "batch"
  /\ slots[s].status /= 0
  /\ slots' = [slots EXCEPT ![s] = Idle]
  /\ UNCHANGED <<store, now, cachedSecret>>

\* the clock advances
Tick ==
  /\ now < MaxTime
  /\ now' = now + 1
  /\ UNCHANGED <<store, slots, cachedSecret>>

Next ==
  \/ \E s \in Slots : Serial(s) /\ PostStart(s)
  \/ \E s \in Slots : Serial(s) /\ PatchStart(s)
  \/ \E s \in Slots : Serial(s) /\ DeleteStart(s)
  \/ \E s \in Slots : Serial(s) /\ GetStart(s)
  \/ \E s \in Slots : Serial(s) /\ GetAllStart(s)
  \/ \E s \in Slots : Serial(s) /\ BatchStart(s)
  \/ \E s \in Slots : SecretReply(s)
  \/ \E s \in Slots : SecretThrow(s)
  \/ \E s \in Slots : PostGet(s)
  \/ \E s \in Slots : PostFetch(s)
  \/ \E s \in Slots : PostPut(s)
  \/ \E s \in Slots : PatchGet(s)
  \/ \E s \in Slots : PatchFetch(s)
  \/ \E s \in Slots : PatchPut(s)
  \/ \E s \in Slots : PatchDelete(s)
  \/ \E s \in Slots : DeleteGet(s)
  \/ \E s \in Slots : DeleteDelete(s)
  \/ \E s \in Slots : GetGet(s)
  \/ \E s \in Slots : GetFetch(s)
  \/ \E s \in Slots : GetPut(s)
  \/ \E s \in Slots : GetAllScan(s)
  \/ \E s \in Slots : Respond(s)
  \/ \E s \in Slots : BatchNext(s)
  \/ \E s \in Slots : BatchRespond(s)
  \/ Tick

\* the requests are served one at a time
Spec == Init /\ [][Next]_vars

\* the requests that are served concurrently: a create, two updates, a
\* delete and a get of one card
ConcCalls ==
  { Call("POST", "editor", Req("khm", "1", Body(<< Posted("nonfoil", 1, "") >>)), NoInput),
    Call("PATCH", "editor", Req("khm", "1", Body(<< Posted("nonfoil", 1, "") >>)), NoInput),
    Call("PATCH", "editor", Req("khm", "1", Body(<< Posted("nonfoil", 0, "") >>)), NoInput),
    Call("DELETE", "editor", Req("khm", "1", EmptyBody), NoInput),
    Call("GET", NoToken, Req("khm", "1", EmptyBody), NoInput) }

\* a request starts in any idle slot, whatever the other slots do: node
\* runs the pieces of the handlers of several requests in any order
ConcNext ==
  \/ \E s \in Slots : PostStart(s) /\ slots'[s].call \in ConcCalls
  \/ \E s \in Slots : PatchStart(s) /\ slots'[s].call \in ConcCalls
  \/ \E s \in Slots : DeleteStart(s) /\ slots'[s].call \in ConcCalls
  \/ \E s \in Slots : GetStart(s) /\ slots'[s].call \in ConcCalls
  \/ \E s \in Slots : SecretReply(s)
  \/ \E s \in Slots : SecretThrow(s)
  \/ \E s \in Slots : PostGet(s)
  \/ \E s \in Slots : PostFetch(s)
  \/ \E s \in Slots : PostPut(s)
  \/ \E s \in Slots : PatchGet(s)
  \/ \E s \in Slots : PatchFetch(s)
  \/ \E s \in Slots : PatchPut(s)
  \/ \E s \in Slots : PatchDelete(s)
  \/ \E s \in Slots : DeleteGet(s)
  \/ \E s \in Slots : DeleteDelete(s)
  \/ \E s \in Slots : GetGet(s)
  \/ \E s \in Slots : GetFetch(s)
  \/ \E s \in Slots : GetPut(s)
  \/ \E s \in Slots : Respond(s)
  \/ Tick

\* the requests of ConcCalls are served concurrently
ConcSpec == Init /\ [][ConcNext]_vars

(***************************************************************************)
(* Properties                                                              *)
(***************************************************************************)
\* the frames of the requests in service
Serving == {s \in Slots : slots[s].kind \in {"single", "batch"}}
Finished(s) == s \in Serving /\ slots[s].frame.pc = "done"

\* the finish names of a finishes array (submitted or stored)
Names(fs) == {fs[i].finish : i \in 1..Len(fs)}

\* the number of entries of a finishes array under a name
Count(fs, name) == Cardinality({i \in 1..Len(fs) : fs[i].finish = name})

\* the total amount of the entries of a finishes array under a name
RECURSIVE QtyOf(_, _)
QtyOf(fs, name) ==
  IF fs = << >>
  THEN 0
  ELSE (IF Head(fs).finish = name THEN Head(fs).amount ELSE 0)
         + QtyOf(Tail(fs), name)

\* the amount of the last entry of a submitted array under a name it holds
LastAmount(fs, name) ==
  LET last == CHOOSE i \in 1..Len(fs) :
                /\ fs[i].finish = name
                /\ \A j \in (i + 1)..Len(fs) : fs[j].finish /= name
  IN  fs[last].amount

\* the record under the key of a frame is what the handler read
Untouched(f) ==
  IF f.hasItem
  THEN f.key \in DOMAIN store /\ store[f.key] = f.item
  ELSE f.key \notin DOMAIN store

\* a record of unique finish names, each with a quantity above zero
WellFormed(card) ==
  /\ Len(card.finishes) > 0
  /\ \A i \in 1..Len(card.finishes) :
       /\ card.finishes[i].amount > 0
       /\ Count(card.finishes, card.finishes[i].finish) = 1

\* the key a batch operation names
OpKey(op) == getKey(op.setcode, op.cardNumber)

\* C1: every record in the store has at least one finish entry with a
\* quantity above zero
C1_RecordHasPositiveFinish ==
  \A k \in DOMAIN store :
    \E i \in 1..Len(store[k].finishes) : store[k].finishes[i].amount > 0

\* C2: a create or update whose finishes array names a finish outside the
\* allowed finishes of the snapshot in use is answered 400 and the stored
\* record is exactly the record the handler read
C2_ValidationGate ==
  \A s \in Slots :
    LET f == slots[s].frame
    IN  ( /\ Finished(s)
          /\ f.type \in {"create", "update"}
          /\ ~f.scryfallData.isNull
          /\ \E i \in 1..Len(f.body.finishes) :
               f.body.finishes[i].finish \notin validFinishes(f.scryfallData) )
        => /\ f.result.status = 400
           /\ f.writes = 0
           /\ Untouched(f)

\* C2: a create on an existing record was rejected for the second entry of
\* its payload, the first entry being valid
C2_Witness ==
  \E s \in Slots :
    LET f == slots[s].frame
    IN  /\ Finished(s)
        /\ f.type = "create"
        /\ f.hasItem
        /\ ~f.scryfallData.isNull
        /\ Len(f.body.finishes) = 2
        /\ f.body.finishes[1].finish \in validFinishes(f.scryfallData)
        /\ f.body.finishes[2].finish \notin validFinishes(f.scryfallData)
        /\ f.result.status = 400

\* C3: every successful create adds to the stored quantity of each finish
\* exactly the amounts its payload submits for that finish (the quantity of
\* an absent record being 0), so that the stored quantity after a sequence
\* of creates from ABSENT is the sum of the submitted amounts
C3_CreateAddsSubmitted ==
  [][ \A s \in Slots :
        (At(s, "create", "put") /\ slots'[s].frame.pc = "done")
        => LET f == slots[s].frame
           IN  \A n \in FinishNames :
                 QtyOf(store'[f.key].finishes, n)
                   = (IF f.key \in DOMAIN store
                      THEN QtyOf(store[f.key].finishes, n) ELSE 0)
                     + QtyOf(f.body.finishes, n) ]_vars

\* C4 as stated: after a successful update (here of a record of unique
\* finish names and positive quantities) every payload entry with an amount
\* above zero is the stored quantity of its finish, and every finish of an
\* entry with amount 0 is absent from the record
C4_UpdateSetsEachAmount ==
  \A s \in Slots :
    LET f == slots[s].frame
    IN  ( /\ Finished(s) /\ f.type = "update" /\ Succeeded(f.result)
          /\ WellFormed(f.item) )
        => \A i \in 1..Len(f.body.finishes) :
             LET p == f.body.finishes[i]
             IN  IF p.amount > 0
                 THEN /\ f.key \in DOMAIN store
                      /\ Count(store[f.key].finishes, p.finish) = 1
                      /\ QtyOf(store[f.key].finishes, p.finish) = p.amount
                 ELSE f.key \in DOMAIN store
                        => Count(store[f.key].finishes, p.finish) = 0

\* C4: after a successful update every finish the payload names has, as its
\* stored quantity, the last amount the payload gives it when that amount
\* is above zero, and is absent from the record when that amount is 0
C4_UpdateSetsLastAmount ==
  \A s \in Slots :
    LET f == slots[s].frame
    IN  (Finished(s) /\ f.type = "update" /\ Succeeded(f.result))
        => \A n \in Names(f.body.finishes) :
             LET a == LastAmount(f.body.finishes, n)
             IN  IF a > 0
                 THEN /\ f.key \in DOMAIN store
                      /\ Count(store[f.key].finishes, n) = 1
                      /\ QtyOf(store[f.key].finishes, n) = a
                 ELSE /\ a = 0
                      /\ f.key \in DOMAIN store
                           => Count(store[f.key].finishes, n) = 0

\* C4: an update has replaced the quantity of a finish the record held with
\* another quantity
C4_Witness ==
  \E s \in Slots :
    LET f == slots[s].frame
    IN  /\ Finished(s)
        /\ f.type = "update"
        /\ f.result.body = "card"
        /\ \E n \in Names(f.body.finishes) :
             /\ LastAmount(f.body.finishes, n) > 0
             /\ HasFinish(f.item.finishes, n)
             /\ QtyOf(f.item.finishes, n) > 0
             /\ QtyOf(f.item.finishes, n) /= LastAmount(f.body.finishes, n)
             /\ QtyOf(store[f.key].finishes, n) = LastAmount(f.body.finishes, n)

\* the payload of an update gives 0 to every finish of the record it read
ZeroesRecord(f) ==
  \A n \in Names(f.item.finishes) :
    n \in Names(f.body.finishes) /\ LastAmount(f.body.finishes, n) = 0

\* C5 as stated: an update on an existing record whose payload sets every
\* finish of the record to 0 is answered 204 and the record is gone (here
\* for a record of unique finish names and positive quantities and an
\* update that passes validation)
C5_ZeroingDeletes ==
  \A s \in Slots :
    LET f == slots[s].frame
    IN  ( /\ Finished(s) /\ f.type = "update" /\ f.hasItem
          /\ WellFormed(f.item)
          /\ ~f.scryfallData.isNull
          /\ PatchInvalidAt(f.body.finishes, validFinishes(f.scryfallData)) = 0
          /\ ZeroesRecord(f) )
        => f.result.status = 204 /\ f.key \notin DOMAIN store

\* an update that passes validation, sets every finish of the record to 0
\* and leaves no finish of its payload above 0 is answered 204 and the
\* record is gone
C5_Deleted ==
  \A s \in Slots :
    LET f == slots[s].frame
    IN  ( /\ Finished(s) /\ f.type = "update" /\ f.hasItem
          /\ ~f.scryfallData.isNull
          /\ PatchInvalidAt(f.body.finishes, validFinishes(f.scryfallData)) = 0
          /\ ZeroesRecord(f)
          /\ \A n \in Names(f.body.finishes) : LastAmount(f.body.finishes, n) = 0 )
        => f.result.status = 204 /\ f.key \notin DOMAIN store

\* a get that finds no record is answered 404
C5_GetNotFound ==
  \A s \in Slots :
    LET f == slots[s].frame
    IN  (Finished(s) /\ f.type = "get" /\ ~f.hasItem)
        => f.result.status = 404 /\ f.key \notin DOMAIN store

\* an absent record comes into the store by the PutCommand of a create only
C5_OnlyCreateRevives ==
  \A k \in StoreKeys :
    (k \notin DOMAIN store /\ k \in DOMAIN store')
    => \E s \in Slots : At(s, "create", "put") /\ slots[s].frame.key = k

\* C5: an update that passes validation, sets every finish of the record to
\* 0 and leaves no finish above 0 deletes the record and answers 204; the
\* key stays absent until a create stores it again, and a get that finds the
\* key absent answers 404
C5_DeletionClosure ==
  [](C5_Deleted /\ C5_GetNotFound) /\ [][C5_OnlyCreateRevives]_vars

\* C5: an update has zeroed a record of two finishes and deleted it
C5_Witness ==
  \E s \in Slots :
    LET f == slots[s].frame
    IN  /\ Finished(s) /\ f.type = "update" /\ f.hasItem
        /\ Cardinality(Names(f.item.finishes)) = 2
        /\ ZeroesRecord(f)
        /\ f.result.status = 204
        /\ f.key \notin DOMAIN store

\* C6: in a batch, an operation that ends in an error outcome is followed by
\* the next operation of the array, and the store keeps what the earlier
\* successful operations wrote: the record of a key is the card (or the
\* deletion) of the last successful operation on that key
C6_BatchIsolation ==
  \A s \in Slots :
    (slots[s].kind = "batch" /\ slots[s].status /= 400)
    => LET b == slots[s]
       IN  /\ \A i \in 1..Len(b.results) :
                (Failed(b.results[i].result) /\ i < Len(b.ops))
                => \/ /\ i < Len(b.results)
                      /\ b.results[i + 1].type = b.ops[i + 1].type
                      /\ OpKey(b.results[i + 1]) = OpKey(b.ops[i + 1])
                   \/ /\ i = Len(b.results)
                      /\ b.frame.pc /= "none"
                      /\ b.frame.type = b.ops[i + 1].type
                      /\ b.frame.key = OpKey(b.ops[i + 1])
           /\ \A j \in 1..Len(b.results) :
                ( /\ Succeeded(b.results[j].result)
                  /\ \A i \in (j + 1)..Len(b.results) :
                       OpKey(b.results[i]) = OpKey(b.results[j])
                       => Failed(b.results[i].result)
                  /\ (b.frame.pc /= "none" /\ b.frame.key = OpKey(b.results[j]))
                       => b.frame.writes = 0 )
                => IF b.results[j].result.body = "card"
                   THEN /\ OpKey(b.results[j]) \in DOMAIN store
                        /\ store[OpKey(b.results[j])] = b.results[j].result.card
                   ELSE OpKey(b.results[j]) \notin DOMAIN store

\* C6: a batch of three updates has ended with a success, a validation error
\* and a success, and the record holds what the first and the third wrote
C6_Witness ==
  \E s \in Slots :
    LET b == slots[s]
    IN  /\ b.kind = "batch" /\ b.status = 200
        /\ Len(b.results) = 3
        /\ \A i \in 1..3 : b.results[i].type = "update"
        /\ b.results[1].result.body = "card"
        /\ b.results[2].result.status = 400
        /\ b.results[3].result.body = "card"
        /\ OpKey(b.results[1]) \in DOMAIN store
        /\ QtyOf(store[OpKey(b.results[1])].finishes, "nonfoil") = 2
        /\ QtyOf(store[OpKey(b.results[3])].finishes, "foil") = 1

\* C7: a batch serves one operation at a time in the order of the array: the
\* handler in progress is the one of operation idx, the results of all the
\* operations before it are recorded in order with their type and key, and
\* the answer holds one result per operation
C7_BatchInOrder ==
  \A s \in Slots :
    (slots[s].kind = "batch" /\ slots[s].status /= 400)
    => LET b == slots[s]
       IN  /\ Len(b.results) = b.idx - 1
           /\ b.idx <= Len(b.ops) + 1
           /\ \A i \in 1..Len(b.results) :
                /\ i <= Len(b.ops)
                /\ b.results[i].type = b.ops[i].type
                /\ b.results[i].setcode = b.ops[i].setcode
                /\ b.results[i].cardNumber = b.ops[i].cardNumber
           /\ b.frame.pc /= "none"
                => /\ b.idx <= Len(b.ops)
                   /\ b.frame.type = b.ops[b.idx].type
                   /\ b.frame.key = OpKey(b.ops[b.idx])
           /\ b.status = 200
                => Len(b.results) = Len(b.ops) /\ b.frame.pc = "none"
           /\ b.status = 0 => b.frame.pc /= "none"

\* C7: a batch of three operations has answered with its three results
C7_Witness ==
  \E s \in Slots :
    /\ slots[s].kind = "batch" /\ slots[s].status = 200
    /\ Len(slots[s].ops) = 3
    /\ Len(slots[s].results) = 3
    /\ \E i \in 1..3 : slots[s].results[i].result.body = "card"

\* C8: a successful create answers 201 when it found no record and 200 when
\* it found one
C8_CreatedOrUpdated ==
  \A s \in Slots :
    LET f == slots[s].frame
    IN  (Finished(s) /\ f.type = "create" /\ Succeeded(f.result))
        => f.result.status = (IF f.hasItem THEN 200 ELSE 201)

\* the handler left before its GetCommand (checks of the body in patch, or
\* a batch operation without a setcode)
LeftBeforeRead(f) ==
  \/ f.setcode = Undefined
  \/ f.type = "update" /\ (MissingBody(f.body) \/ Len(f.body.finishes) = 0)

\* a finished update, delete or get found no record, answered 404, looked
\* nothing up and wrote nothing, and the key is absent
AbsentNotFound(f) ==
  /\ f.result.status = 404
  /\ f.lookups = 0
  /\ f.writes = 0
  /\ f.key \notin DOMAIN store

\* C9 as stated: every update, delete and get on an absent key is answered
\* 404 without a catalog lookup or a store write, and the key stays absent
C9_AbsentIsNotFound ==
  \A s \in Slots :
    LET f == slots[s].frame
    IN  ( /\ Finished(s) /\ f.type \in {"update", "delete", "get"}
          /\ f.setcode /= Undefined
          /\ ~f.hasItem /\ f.key \notin DOMAIN store )
        => AbsentNotFound(f)

\* C9: every delete, every get and every update with a non-empty finishes
\* array on an absent key is answered 404 without a catalog lookup or a
\* store write, and the key stays absent
C9_AbsentIsNotFoundWithFinishes ==
  \A s \in Slots :
    LET f == slots[s].frame
    IN  ( /\ Finished(s) /\ f.type \in {"update", "delete", "get"}
          /\ ~f.hasItem /\ ~LeftBeforeRead(f) )
        => AbsentNotFound(f)

\* C9: an update with a finishes array has found no record
C9_Witness ==
  \E s \in Slots :
    LET f == slots[s].frame
    IN  /\ Finished(s) /\ f.type = "update" /\ ~f.hasItem
        /\ Len(f.body.finishes) > 0
        /\ f.result.status = 404
        /\ f.key \notin DOMAIN store

\* C10: a create or update whose catalog lookup gave no data ends in an
\* error outcome without a store write, and the stored record is exactly
\* the record the handler read
C10_CatalogFailureAborts ==
  \A s \in Slots :
    LET f == slots[s].frame
    IN  ( /\ s \in Serving
          /\ f.type \in {"create", "update"}
          /\ f.lookups > 0
          /\ f.scryfallData.isNull )
        => /\ f.pc = "done"
           /\ Failed(f.result)
           /\ f.writes = 0
           /\ Untouched(f)

\* C10: an update of an existing record with an expired snapshot has failed
\* on its catalog lookup
C10_Witness ==
  \E s \in Slots :
    LET f == slots[s].frame
    IN  /\ Finished(s) /\ f.type = "update" /\ f.hasItem
        /\ f.lookups = 1
        /\ f.scryfallData.isNull
        /\ ~f.item.scryfall.isNull
        /\ Failed(f.result)

\* the handler reached the validation of its payload against a snapshot
Validated(f) == f.type \in {"create", "update"} /\ ~f.scryfallData.isNull

\* C11: a create whose payload holds an amount that is not a positive
\* integer, and an update whose payload holds an amount that is not a
\* non-negative integer, is answered 400 and leaves the record as the
\* handler read it; an update of an existing record with allowed finishes
\* and amounts of 0 or more is accepted
C11_AmountValidation ==
  \A s \in Slots :
    LET f == slots[s].frame
        fs == f.body.finishes
    IN  (Finished(s) /\ Validated(f))
        => /\ ( \/ f.type = "create" /\ \E i \in 1..Len(fs) : fs[i].amount <= 0
                \/ f.type = "update" /\ \E i \in 1..Len(fs) : fs[i].amount < 0 )
              => (f.result.status = 400 /\ f.writes = 0 /\ Untouched(f))
           /\ ( /\ f.type = "update"
                /\ \A i \in 1..Len(fs) :
                     fs[i].amount >= 0 /\ fs[i].finish \in validFinishes(f.scryfallData) )
              => Succeeded(f.result)

\* C12: no finish entry of a stored record has a quantity below zero, and
\* the record an update has written has no entry of quantity 0
C12_NoNegativeQuantity ==
  /\ \A k \in DOMAIN store :
       \A i \in 1..Len(store[k].finishes) : store[k].finishes[i].amount >= 0
  /\ \A s \in Slots :
       LET f == slots[s].frame
       IN  (Finished(s) /\ f.type = "update" /\ f.result.body = "card")
           => \A i \in 1..Len(store[f.key].finishes) :
                store[f.key].finishes[i].amount > 0

\* C13: no stored record holds two finish entries of the same finish name
C13_UniqueFinishNames ==
  \A k \in DOMAIN store :
    \A n \in FinishNames : Count(store[k].finishes, n) <= 1

\* the types the switch of the batch route knows
KnownTypes == {"create", "update", "delete"}

\* the outcome of a batch operation of unknown type
UnknownOperation == Result(0, "Unknown operation type", NoCard)

\* a batch operation of unknown type has its error outcome at once, without
\* a store read, a catalog lookup or a store write, and the operation after
\* it is served
C14_UnknownOutcome ==
  \A s \in Slots :
    (slots[s].kind = "batch" /\ slots[s].status /= 400)
    => LET b == slots[s]
       IN  /\ (b.frame.pc /= "none" /\ b.frame.type \notin KnownTypes)
                => /\ b.frame.pc = "done"
                   /\ b.frame.result = UnknownOperation
                   /\ ~b.frame.hasItem
                   /\ b.frame.lookups = 0
                   /\ b.frame.writes = 0
           /\ \A i \in 1..Len(b.results) :
                b.results[i].type \notin KnownTypes
                => /\ b.results[i].result = UnknownOperation
                   /\ i < Len(b.ops)
                        => \/ /\ i < Len(b.results)
                              /\ b.results[i + 1].type = b.ops[i + 1].type
                           \/ /\ i = Len(b.results)
                              /\ b.frame.pc /= "none"
                              /\ b.frame.type = b.ops[i + 1].type
                              /\ b.frame.key = OpKey(b.ops[i + 1])

\* the store is the same before and after every step taken while the
\* operation of a batch is one of unknown type
C14_StoreUntouched ==
  \A s \in Slots :
    ( /\ slots[s].kind = "batch"
      /\ slots[s].frame.pc /= "none"
      /\ slots[s].frame.type \notin KnownTypes )
    => store' = store

\* C14: a batch operation whose type is not create, update or delete gets
\* the outcome "Unknown operation type", reads and writes nothing of the
\* store and looks nothing up in the catalog, and the batch goes on with the
\* operation after it
C14_UnknownOperation == []C14_UnknownOutcome /\ [][C14_StoreUntouched]_vars

\* C14: a batch has answered whose first operation was of unknown type and
\* whose third operation, a create, has stored its card
C14_Witness ==
  \E s \in Slots :
    LET b == slots[s]
    IN  /\ b.kind = "batch" /\ b.status = 200
        /\ Len(b.results) = 3
        /\ b.results[1].type = "merge"
        /\ b.results[1].result = UnknownOperation
        /\ b.results[3].type = "create"
        /\ b.results[3].result.status = 201
        /\ OpKey(b.results[3]) \in DOMAIN store

\* C15: a batch call whose operations field is an array is answered 200
\* with one result per operation, whatever the outcomes of the operations;
\* a call whose operations field is not an array is answered 400 and no
\* operation is served
C15_BatchAnswers ==
  \A s \in Slots :
    slots[s].kind = "batch"
    => LET b == slots[s]
       IN  IF b.call.input.isArray
           THEN /\ b.status \in {0, 200}
                /\ b.status = 200 => Len(b.results) = Len(b.call.input.operations)
           ELSE /\ b.status = 400
                /\ b.frame = NoFrame
                /\ b.results = << >>

\* the middleware has answered the request of a slot itself
IsRefused(slot) == slot.kind = "single" /\ slot.frame.type = "none"

\* a handler runs in a slot
InHandler(slot) ==
  \/ slot.kind = "batch"
  \/ slot.kind = "single" /\ slot.frame.type /= "none"

\* a request on a protected route that carries no accepted token is never
\* in a handler: it waits for the signing key or has been refused, with 401
\* for no token; a handler of a protected route runs for an accepted token
\* only; a request on an open route is in its handler without a token
C16_Gate ==
  \A s \in Slots :
    LET b == slots[s]
    IN  b.kind /= "idle"
        => /\ (b.call.route \in Protected /\ b.call.token /= "editor")
                => /\ ~InHandler(b)
                   /\ b.frame.pc \in {"none", "done"}
                   /\ ~b.frame.hasItem
                   /\ b.frame.lookups = 0
                   /\ b.frame.writes = 0
                   /\ b.call.token = NoToken
                        => IsRefused(b) /\ b.frame.result.status = 401
           /\ (b.call.route \in Protected /\ InHandler(b))
                => b.call.token = "editor" /\ cachedSecret
           /\ b.call.route \in Open
                => /\ b.call.token = NoToken
                   /\ InHandler(b)
                   /\ b.frame.type \in {"get", "getAll"}

\* a request that is refused in a step is refused with 401 when it has no
\* token, with 403 when the signing key is there to verify its token, and
\* with 500 when the key could not be fetched; while a request without an
\* accepted token is in a slot, the store does not change
C16_Refusal ==
  \A s \in Slots :
    /\ (~IsRefused(slots[s]) /\ IsRefused(slots'[s]))
         => slots'[s].frame.result.status
              = (IF slots'[s].call.token = NoToken THEN 401
                 ELSE IF cachedSecret' THEN 403 ELSE 500)
    /\ ( /\ slots'[s].kind /= "idle"
         /\ slots'[s].call.route \in Protected
         /\ slots'[s].call.token /= "editor" )
         => store' = store

\* C16: POST, PATCH, DELETE on a card and POST /cards/batch reach their
\* handler only for a token that verifies and carries CARD_EDITOR; a request
\* with no token (401), an invalid token (403) or a token without the
\* permission (403) reads and writes nothing of the store; GET of a card and
\* GET of all cards are served without a token
C16_AuthenticatedMutation == []C16_Gate /\ [][C16_Refusal]_vars

\* C16: a PATCH for a stored record was refused with 403 for a token
\* without the permission, and the record is in the store
C16_Witness ==
  \E s \in Slots :
    LET b == slots[s]
    IN  /\ IsRefused(b)
        /\ b.call.route = "PATCH"
        /\ b.call.token = "viewer"
        /\ b.frame.result.status = 403
        /\ getKey(b.call.req.setcode, b.call.req.cardNumber) \in DOMAIN store

\* two creates of the same key, both answered 201, that have read the same
\* state of the record (the same record, or none)
SameRead(f, g) ==
  /\ f.type = "create" /\ g.type = "create"
  /\ f.result.status = 201 /\ g.result.status = 201
  /\ f.key = g.key
  /\ f.hasItem = g.hasItem
  /\ f.item = g.item

\* C17: requests on one key are not synchronised: when two creates that are
\* served concurrently have read the same state of the record and both are
\* answered 201, the stored record is the card of one of them alone (the
\* last writer), so the quantity the other added is lost
C17_LastWriterWins ==
  \A s \in Slots : \A t \in Slots \ {s} :
    LET f == slots[s].frame
        g == slots[t].frame
    IN  (Finished(s) /\ Finished(t) /\ SameRead(f, g))
        => /\ f.key \in DOMAIN store
           /\ store[f.key] \in {f.card, g.card}
           /\ \A n \in Names(f.body.finishes) \cap Names(g.body.finishes) :
                QtyOf(store[f.key].finishes, n)
                  < QtyOf(f.item.finishes, n)
                      + QtyOf(f.body.finishes, n) + QtyOf(g.body.finishes, n)

\* C17: two creates of nonfoil have read the same record, both are answered
\* 201, and the stored quantity is the quantity read plus one of the two
\* amounts
C17_Witness ==
  \E s \in Slots : \E t \in Slots \ {s} :
    LET f == slots[s].frame
        g == slots[t].frame
    IN  /\ Finished(s) /\ Finished(t) /\ SameRead(f, g)
        /\ f.hasItem
        /\ QtyOf(f.body.finishes, "nonfoil") = 1
        /\ QtyOf(g.body.finishes, "nonfoil") = 1
        /\ QtyOf(store[f.key].finishes, "nonfoil")
             = QtyOf(f.item.finishes, "nonfoil") + 1

\* the slot has taken a step of its handler
Moved(s) == slots'[s].frame /= slots[s].frame

\* a finished get of an existing record has either looked the card up once
\* and written the record once, with the finishes it read, or has done
\* neither; the record in the store is the card it answers
C18_GetOutcome ==
  \A s \in Slots :
    LET f == slots[s].frame
    IN  (Finished(s) /\ f.type = "get" /\ f.hasItem)
        => /\ f.result.body = "card"
           /\ f.result.card = f.card
           /\ f.card.finishes = f.item.finishes
           /\ f.card.CardId = f.item.CardId
           /\ f.key \in DOMAIN store /\ store[f.key] = f.card
           /\ \/ f.lookups = 1 /\ f.writes = 1
              \/ f.lookups = 0 /\ f.writes = 0 /\ f.card = f.item

\* the steps of a get of an existing record: the lookup follows the read
\* exactly when the snapshot is expired, the PutCommand follows the lookup
\* and stores the record read with the snapshot of the lookup and the
\* expiry now + TTL, and the answer follows the PutCommand
C18_GetSteps ==
  \A s \in Slots :
    LET f == slots[s].frame
        g == slots'[s].frame
    IN  /\ (At(s, "get", "get") /\ Moved(s) /\ f.key \in DOMAIN store)
             => IF isScryfallExpired(store[f.key], now)
                THEN g.pc = "fetch" /\ store' = store
                ELSE g.pc = "done" /\ g.lookups = 0 /\ g.writes = 0
                       /\ store' = store
        /\ (At(s, "get", "fetch") /\ Moved(s))
             => /\ g.pc = "put"
                /\ g.card.scryfall \in FetchResults
                /\ g.card.scryfall_ttl = now + TTL
                /\ g.card.finishes = f.item.finishes
                /\ store' = store
        /\ (At(s, "get", "put") /\ Moved(s))
             => /\ g.pc = "done"
                /\ store' = Put(store, f.card)

\* C18: a get of an existing record whose snapshot is expired looks the card
\* up and writes the record back, with the snapshot of the lookup and a new
\* expiry, before it answers; a get of a record whose snapshot is not
\* expired makes no lookup and no write; the finishes of the record are the
\* same after the get in both cases
C18_GetRefresh == []C18_GetOutcome /\ [][C18_GetSteps]_vars

\* C18: a get has replaced an expired snapshot with another one
C18_Witness ==
  \E s \in Slots :
    LET f == slots[s].frame
    IN  /\ Finished(s) /\ f.type = "get" /\ f.hasItem
        /\ f.lookups = 1 /\ f.writes = 1
        /\ ~f.item.scryfall.isNull
        /\ ~f.card.scryfall.isNull
        /\ f.card.scryfall /= f.item.scryfall
        /\ f.card.scryfall_ttl > f.item.scryfall_ttl
        /\ store[f.key] = f.card
        /\ Len(f.card.finishes) > 0

\* the set codes of the model without an upper-case letter
LowerCodes == {"khm"}

\* C19: every record is stored under the pair of a lower-case set code and
\* a card number, and its CardId is that key; a handler addresses the key
\* of the lower-cased set code of its request, so requests (single or batch
\* operations) that differ in the letter case of the set code address the
\* same record
C19_KeyNormalised ==
  /\ \A k \in DOMAIN store :
       /\ k[1] \in LowerCodes
       /\ k[2] \in CardNumbers
       /\ store[k].CardId = k
  /\ \A s \in Serving :
       LET f == slots[s].frame
       IN  (f.type \in KnownTypes \cup {"get"} /\ f.setcode \in SetCodes)
           => /\ f.key[1] \in LowerCodes
              /\ f.key[2] = f.cardNumber
              /\ f.hasItem => f.item.CardId = f.key
              /\ \A c \in SetCodes :
                   toLowerCase(c) = toLowerCase(f.setcode)
                   => getKey(c, f.cardNumber) = f.key

\* C19: an update sent with the set code in upper case has changed the
\* record stored under the lower-case key
C19_Witness ==
  \E s \in Slots :
    LET f == slots[s].frame
    IN  /\ Finished(s) /\ f.type = "update"
        /\ f.setcode = "KHM"
        /\ f.hasItem
        /\ f.result.body = "card"
        /\ f.key = << "khm", "1" >>
        /\ store[f.key] = f.card
        /\ f.card /= f.item

\* C20: when a create, update or get has read a record with a snapshot, the
\* staleness check sends it to the catalog if the stored expiry is the
\* current time, and does not if the stored expiry is the current time + 1
C20_ExpiryBoundary ==
  [][ \A s \in Slots :
        LET f == slots[s].frame
        IN  ( /\ s \in Serving
              /\ f.type \in {"create", "update", "get"}
              /\ f.pc = "get"
              /\ Moved(s)
              /\ f.key \in DOMAIN store
              /\ ~store[f.key].scryfall.isNull
              /\ store[f.key].scryfall_ttl /= 0 )
            => /\ store[f.key].scryfall_ttl = now
                    => slots'[s].frame.pc = "fetch"
               /\ store[f.key].scryfall_ttl = now + 1
                    => slots'[s].frame.pc /= "fetch" ]_vars

\* the record of a key needs a live lookup at a time: its snapshot or its
\* expiry is missing, or the time is past its expiry
Stale(card, t) ==
  \/ card.scryfall.isNull
  \/ card.scryfall_ttl = 0
  \/ t > card.scryfall_ttl

\* after its read of the store a create goes to the catalog exactly when
\* the record is absent or stale, an update or a get exactly when the
\* record is there and stale; a create or update that does not go to the
\* catalog validates against the snapshot of the record
C21_LookupSteps ==
  \A s \in Slots :
    LET f == slots[s].frame
        g == slots'[s].frame
        absent == f.key \notin DOMAIN store
    IN  ( /\ s \in Serving
          /\ f.type \in {"create", "update", "get"}
          /\ f.pc = "get"
          /\ Moved(s) )
        => /\ g.pc = "fetch"
                <=> \/ f.type = "create" /\ absent
                    \/ ~absent /\ Stale(store[f.key], now)
           /\ (g.pc /= "fetch" /\ ~absent)
                => /\ g.lookups = 0
                   /\ f.type \in {"create", "update"}
                        => g.scryfallData = store[f.key].scryfall
                   /\ g.pc = "put" => g.card.scryfall = store[f.key].scryfall

\* a handler makes one lookup at most, and has made one exactly when it has
\* passed its lookup step
C21_OneLookup ==
  \A s \in Serving :
    LET f == slots[s].frame
    IN  /\ f.lookups \in {0, 1}
        /\ f.pc \in {"get", "fetch"} => f.lookups = 0

\* C21: a create, update or get looks the card up in the catalog if and
\* only if the record is absent (create), or its snapshot or expiry is
\* missing, or the current time is past its expiry; otherwise it validates
\* against the stored snapshot and makes no lookup; no operation makes more
\* than one lookup
C21_LookupIffStale == []C21_OneLookup /\ [][C21_LookupSteps]_vars

\* C21: a create on an existing record was validated against the stored
\* snapshot, without a lookup, and has stored its card
C21_Witness ==
  \E s \in Slots :
    LET f == slots[s].frame
    IN  /\ Finished(s) /\ f.type = "create" /\ f.hasItem
        /\ f.lookups = 0
        /\ f.result.status = 201
        /\ f.scryfallData = f.item.scryfall
        /\ f.card.scryfall = f.item.scryfall
        /\ store[f.key] = f.card

\* the number of entries of a finishes array that are equal to an entry
Copies(fs, e) == Cardinality({i \in 1..Len(fs) : fs[i] = e})

\* C22: after a successful create or update of an existing record, every
\* finish entry of the record read whose finish the payload does not name
\* is in the stored record, as often as before, with its quantity and its
\* notes
C22_UnnamedCarriedOver ==
  \A s \in Slots :
    LET f == slots[s].frame
    IN  ( /\ Finished(s)
          /\ f.type \in {"create", "update"}
          /\ f.hasItem
          /\ Succeeded(f.result) )
        => \A i \in 1..Len(f.item.finishes) :
             LET e == f.item.finishes[i]
             IN  e.finish \notin Names(f.body.finishes)
                 => /\ f.key \in DOMAIN store
                    /\ Copies(store[f.key].finishes, e)
                         = Copies(f.item.finishes, e)

\* the payload of an update gives every finish it names the quantity the
\* record read has for it
SetsSameAmounts(f) ==
  \A n \in Names(f.body.finishes) :
    /\ HasFinish(f.item.finishes, n)
    /\ \A i \in 1..Len(f.body.finishes) :
         f.body.finishes[i].finish = n
         => f.body.finishes[i].amount = QtyOf(f.item.finishes, n)

\* C23: an update that sets finishes to the quantities they already have
\* (here on a record of unique finish names and positive quantities whose
\* snapshot is not expired) leaves the quantities, the snapshot and the
\* expiry of the stored record as they were
C23_SameAmountUnchanged ==
  \A s \in Slots :
    LET f == slots[s].frame
    IN  ( /\ Finished(s) /\ f.type = "update" /\ f.hasItem
          /\ Succeeded(f.result)
          /\ f.lookups = 0
          /\ WellFormed(f.item)
          /\ SetsSameAmounts(f) )
        => /\ f.key \in DOMAIN store
           /\ \A n \in FinishNames :
                /\ Count(store[f.key].finishes, n) = Count(f.item.finishes, n)
                /\ QtyOf(store[f.key].finishes, n) = QtyOf(f.item.finishes, n)
           /\ store[f.key].scryfall = f.item.scryfall
           /\ store[f.key].scryfall_ttl = f.item.scryfall_ttl

\* a sequence is the beginning of another
IsPrefix(p, q) == Len(p) <= Len(q) /\ SubSeq(q, 1, Len(p)) = p

\* the lines the notes of a payload add to a finish, in payload order
RECURSIVE PayloadNotes(_, _, _)
PayloadNotes(fs, name, t) ==
  IF fs = << >>
  THEN << >>
  ELSE (IF Head(fs).finish = name /\ Head(fs).notes /= ""
        THEN << noteStr(t, Head(fs).notes) >>
        ELSE << >>) \o PayloadNotes(Tail(fs), name, t)

\* C24: after a successful create or update of an existing record, every
\* finish entry of the record read whose finish is still in the record has
\* its old notes as the beginning of its new notes, followed by one line,
\* stamped with the time of the merge, for each note of the payload for that
\* finish, in payload order, and by nothing else
C24_NotesAppendOnly ==
  \A s \in Slots :
    LET f == slots[s].frame
        t == f.card.scryfall_ttl - TTL
    IN  ( /\ Finished(s)
          /\ f.type \in {"create", "update"}
          /\ f.hasItem
          /\ f.result.body = "card" )
        => \A i \in 1..Len(f.item.finishes) :
             \A j \in 1..Len(store[f.key].finishes) :
               LET old == f.item.finishes[i]
                   new == store[f.key].finishes[j]
               IN  new.finish = old.finish
                   => /\ IsPrefix(old.notes, new.notes)
                      /\ new.notes
                           = old.notes \o PayloadNotes(f.body.finishes, old.finish, t)

\* the answer of a finished getAll holds the records of the store, each
\* under its key, and the handler has made no lookup and no write
C25_ListOutcome ==
  \A s \in Slots :
    LET f == slots[s].frame
    IN  (Finished(s) /\ f.type = "getAll")
        => /\ f.result.body = "cards"
           /\ DOMAIN f.cardsObj = DOMAIN store
           /\ \A k \in DOMAIN store :
                f.cardsObj[k] = store[k] /\ f.cardsObj[k].CardId = k
           /\ f.lookups = 0
           /\ f.writes = 0

\* the store is the same before and after every step taken while a getAll
\* is served
C25_ListSteps ==
  \A s \in Slots :
    (s \in Serving /\ slots[s].frame.type = "getAll") => store' = store

\* C25: getAll answers the map of exactly the records in the store, each
\* under its own key, and writes nothing to the store and looks nothing up
\* in the catalog
C25_ListAll == []C25_ListOutcome /\ [][C25_ListSteps]_vars

\* C25: a getAll has answered two records, one of them with an expired
\* snapshot that is still the snapshot in the store
C25_Witness ==
  \E s \in Slots :
    LET f == slots[s].frame
    IN  /\ Finished(s) /\ f.type = "getAll"
        /\ Cardinality(DOMAIN f.cardsObj) = 2
        /\ \E k \in DOMAIN store :
             /\ ~store[k].scryfall.isNull
             /\ now > store[k].scryfall_ttl
             /\ f.cardsObj[k] = store[k]

\* when a get that found the record and a delete, or an update answered
\* 204, of the same key have both finished, the key is absent
C26_RemovedStaysAbsent ==
  \A s \in Slots : \A t \in Slots \ {s} :
    LET f == slots[s].frame
        g == slots[t].frame
    IN  ( /\ Finished(s) /\ f.type = "get" /\ f.hasItem
          /\ Finished(t) /\ g.type \in {"update", "delete"}
          /\ g.result.status = 204
          /\ g.key = f.key )
        => f.key \notin DOMAIN store

\* the PutCommand of a get that is served together with an update or a
\* delete of the same key that has written leaves the finishes of the
\* record in the store as they are, and leaves an absent key absent
C26_WriteBackStep ==
  \A s \in Slots :
    LET f == slots[s].frame
    IN  ( /\ At(s, "get", "put") /\ Moved(s)
          /\ \E t \in Slots \ {s} :
               /\ t \in Serving
               /\ slots[t].frame.type \in {"update", "delete"}
               /\ slots[t].frame.key = f.key
               /\ slots[t].frame.writes = 1 )
        => IF f.key \in DOMAIN store
           THEN /\ f.key \in DOMAIN store'
                /\ store'[f.key].finishes = store[f.key].finishes
           ELSE f.key \notin DOMAIN store'

\* C26: whatever the interleaving of a get with updates and deletes of the
\* same key, the write-back of the get does not change the finishes of the
\* record and does not store a record again that an update or delete has
\* removed: when the get and the delete (or update to zero) have both
\* finished, the key is absent
C26_GetNeverRevives == []C26_RemovedStaysAbsent /\ [][C26_WriteBackStep]_vars

\* C27: the PutCommand of a create or update that has made no catalog
\* lookup, and so stores the snapshot of the record it read, stores the
\* expiry of that record with it: the expiry is advanced only together with
\* a snapshot that a lookup has produced
C27_ExpiryOnlyWithLookup ==
  [][ \A s \in Slots :
        LET f == slots[s].frame
        IN  ( /\ s \in Serving
              /\ f.type \in {"create", "update"}
              /\ f.pc = "put"
              /\ Moved(s)
              /\ f.hasItem
              /\ f.lookups = 0 )
            => /\ store'[f.key].scryfall = f.item.scryfall
               /\ store'[f.key].scryfall_ttl = f.item.scryfall_ttl ]_vars

\* C28: a get of an existing record whose catalog lookup gave no data
\* leaves the record in the store as it read it, with the snapshot and the
\* expiry it had
C28_FailedRefreshKeepsRecord ==
  \A s \in Slots :
    LET f == slots[s].frame
    IN  ( /\ Finished(s) /\ f.type = "get" /\ f.hasItem
          /\ f.lookups = 1
          /\ f.card.scryfall.isNull )
        => /\ f.key \in DOMAIN store
           /\ store[f.key] = f.item

\* C30: every finish name of a stored record is one of the finishes of the
\* snapshot stored in that record (here for the records that hold a
\* snapshot)
C30_FinishesAllowed ==
  \A k \in DOMAIN store :
    ~store[k].scryfall.isNull
    => \A i \in 1..Len(store[k].finishes) :
         store[k].finishes[i].finish \in validFinishes(store[k].scryfall)

\* a batch operation that can be sent as a request of its own
Sendable(op) == op.type \in KnownTypes /\ op.setcode \in SetCodes

\* the operation of a batch that is being served
CurrentOp(b) == b.ops[b.idx]

\* the steps of a batch are the steps of the separate requests of its
\* operations, in the order of the array: an operation enters the handler
\* as its request does, every piece of the handler changes the frame and
\* the store as the piece of the request does, and the result recorded for
\* the operation is the answer of the handler
C29_BatchSteps ==
  \A s \in Slots :
    LET b == slots[s]
        c == slots'[s]
    IN  /\ ( /\ c.kind = "batch" /\ c.status = 0
             /\ (b.kind /= "batch" \/ c.idx /= b.idx)
             /\ Sendable(CurrentOp(c)) )
             => Express(c.frame) = handle(CallOf(CurrentOp(c))).frame
        /\ ( /\ b.kind = "batch" /\ b.status = 0
             /\ b.frame.pc \in {"get", "fetch", "put", "del"}
             /\ Moved(s) )
             => /\ c.idx = b.idx /\ c.results = b.results
                /\ \E data \in FetchResults :
                     << Express(c.frame), store' >>
                       = RequestStep(Express(b.frame), store, now, data)
        /\ ( /\ b.kind = "batch" /\ b.status = 0
             /\ b.frame.pc = "done"
             /\ c /= b )
             => /\ store' = store
                /\ c.idx = b.idx + 1
                /\ c.results = Append(b.results, ResultEntry(CurrentOp(b), b.frame.result))

\* a batch that has answered holds one result for each of its operations
C29_BatchResults ==
  \A s \in Slots :
    (slots[s].kind = "batch" /\ slots[s].status = 200)
    => /\ Len(slots[s].results) = Len(slots[s].ops)
       /\ \A i \in 1..Len(slots[s].ops) :
            /\ slots[s].results[i].type = slots[s].ops[i].type
            /\ slots[s].results[i].setcode = slots[s].ops[i].setcode
            /\ slots[s].results[i].cardNumber = slots[s].ops[i].cardNumber

QueriesSecret(s) == slots[s].kind /= "auth" /\ slots'[s].kind = "auth"

\* a request sends a query to the secrets manager only when the secret is
\* not cached and no query of another request is waiting for its reply
C31_QueryStep ==
  \A s \in Slots :
    QueriesSecret(s)
    => /\ ~cachedSecret
       /\ \A t \in Slots \ {s} : slots[t].kind /= "auth"

\* C31: the secret is fetched once and reused: requests that arrive while
\* the first query is waiting for its reply send no second query, and no
\* request sends a query after a reply has been cached
C31_SecretQueriedOnce == [][C31_QueryStep]_vars

=============================================================================
